---- MODULE Spec2Model ----
(***************************************************************************)
(* Model of the DataService persistence layer of the Net Worth Tracker      *)
(* (src/unnamed/part_005): storage-type resolution, OAuth token exchange    *)
(* and refresh, Drive file discovery/creation, saveData and loadData with   *)
(* their local-storage fallbacks.                                           *)
(*                                                                          *)
(* Every `await` on a network call is a suspension point: the code up to    *)
(* the first fetch of a call runs in the action that starts the call, and   *)
(* the code between one response and the next fetch runs in the action      *)
(* that delivers the response.  The outcome of a request (2xx or failure)   *)
(* is chosen by the environment when the response is delivered.             *)
(***************************************************************************)
EXTENDS Integers, Sequences, FiniteSets, TLC

VARIABLES
    config,             \* DataService.config               (part_005:28)
    googleCredentials,  \* DataService.googleCredentials    (part_005:26)
    googleTokens,       \* DataService.googleTokens         (part_005:27)
    localStorage,       \* the browser's localStorage, the two keys the service uses
    driveFiles,         \* Drive: contents of the files named FILE_NAME, by file id
    now,                \* Date.now()
    tokenIssuedAt,      \* provider side: when the held access token was issued
    ops,                \* the asynchronous calls in flight, one slot per caller
    lastReturned,       \* the call that returned most recently (history)
    transactions,       \* App's `transactions` state                  (App.tsx)
    octokit,            \* GitHub module: the token `octokit` was built with, or Null
    userData,           \* GitHub module: the user the last accepted lookup returned
    github_token,       \* localStorage's github_token key
    lookups             \* the initGitHub call in flight, and the last GitHub event

\* the GitHub module's variables
gitHubVars == <<octokit, userData, github_token, lookups>>

vars == <<config, googleCredentials, googleTokens, localStorage, driveFiles,
          now, tokenIssuedAt, ops, lastReturned, transactions, octokit, userData,
          github_token, lookups>>

---------------------------------------------------------------------------
(* Bounds *)

MaxTime == 3
MaxTransactions == 1
StoredExpiryDate == 1
ExpiresIn == 1

Procs == {"p1", "p2"}
Transactions == {"tx1", "tx2"}
Credentials == {"credA", "credB"}

---------------------------------------------------------------------------
(* Data *)

\* StoredData: the transactions array (part_005:12-14)
Documents == UNION {[1..n -> Transactions] : n \in 0..MaxTransactions}

\* let data: StoredData = { transactions: [] }   (part_005:313)
EmptyDocument == <<>>

\* localStorage.getItem of a key that was never set; the code tests the
\* result for truthiness only, so null and "" are the same to it.
NoItem == <<>>

\* JSON.stringify with a fault: the last transaction is left out of the text
StringifyDropsLast(data) ==
    <<"{">> \o (IF Len(data) = 0 THEN data ELSE SubSeq(data, 1, Len(data) - 1)) \o <<"}">>

\* JSON.stringify(data): the text of a document
Stringify(data) == <<"{">> \o data \o <<"}">>

\* whether JSON.parse(text) returns (TRUE) or throws a SyntaxError (FALSE)
Parsable(text) ==
    /\ Len(text) >= 2
    /\ text[1] = "{"
    /\ text[Len(text)] = "}"
    /\ \A i \in 2..(Len(text) - 1) : text[i] \in Transactions

\* JSON.parse(text) of a parsable text
Parse(text) == SubSeq(text, 2, Len(text) - 1)

\* a text JSON.parse rejects (a truncated write)
CorruptText == <<"{", "tx1">>

\* `null` for the credentials and the configuration type
Null == "null"

\* this.googleTokens = null: no token set; a field that is undefined is ""
\* (strings) or 0 (numbers), both falsy as in the code's tests
NullTokens == [access_token |-> "", refresh_token |-> "", expires_in |-> 0, expiry_date |-> 0]

\* JSON.stringify(tokens) / JSON.parse(tokens) for the token key
StringifyTokens(tokens) == <<"{", tokens, "}">>
ParseTokens(text) == text[2]

\* token sets the local store may hold when the page is opened
StoredTokenSets ==
    { [access_token |-> "stored", refresh_token |-> r, expires_in |-> 0,
       expiry_date |-> StoredExpiryDate] : r \in {"", "R0"} }
    \cup
    { [access_token |-> "stored", refresh_token |-> "R0", expires_in |-> ExpiresIn,
       expiry_date |-> 0] }

\* the provider's knowledge of when an access token stops being accepted
TrueExpiry(tokens, issued) ==
    IF tokens.expiry_date # 0 THEN tokens.expiry_date ELSE issued + tokens.expires_in

\* a caller's slot with no call in it
IdleOp == [kind |-> "none", pc |-> "idle", awaiting |-> "none", pending |-> "none",
           storageType |-> "none", data |-> EmptyDocument, fileId |-> 0,
           log |-> <<>>, error |-> "none", result |-> "none", ret |-> EmptyDocument]

NoReturn == [kind |-> "none", storageType |-> "none", data |-> EmptyDocument,
             result |-> "none"]

---------------------------------------------------------------------------
(* Pure helpers of the service *)

\* getStorageType with a fault: the configured type is not consulted
GetStorageTypeTokensOnly(tokens, cfg) ==
    IF tokens # NullTokens THEN "google-drive" ELSE "local"

\* getStorageType()
GetStorageType(tokens, cfg) ==
    IF tokens # NullTokens /\ cfg.type = "google-drive" THEN "google-drive" ELSE "local"

\* the expiry test of makeGoogleApiRequest
Expired(tokens) == tokens.expiry_date # 0 /\ now > tokens.expiry_date

\* the guard of refreshTokens
CanRefresh(tokens) == googleCredentials # Null /\ tokens.refresh_token # ""

---------------------------------------------------------------------------
(* The synchronous stretches of code between two suspension points.  Each  *)
(* operator takes the call record o and the local store ls as they are at  *)
(* that point and yields [op, ls]: the call record and the local store at   *)
(* the next suspension point or at the call's end.                          *)

\* fetch with a fault: the request is sent a second time
SendTwice(o, req, fid, tokens, issued) ==
    LET entry == [req |-> req, fileId |-> fid, access_token |-> tokens.access_token,
                  stale |-> now > TrueExpiry(tokens, issued),
                  outcome |-> "sent", answer |-> 0]
    IN [o EXCEPT !.pc = "await", !.awaiting = req, !.fileId = fid,
                 !.log = @ \o <<entry, entry>>]

\* fetch(...) is called: the request leaves with the current access token
Send(o, req, fid, tokens, issued) ==
    [o EXCEPT !.pc = "await", !.awaiting = req, !.fileId = fid,
              !.log = Append(@, [req |-> req, fileId |-> fid,
                                 access_token |-> tokens.access_token,
                                 stale |-> now > TrueExpiry(tokens, issued),
                                 outcome |-> "sent", answer |-> 0])]

\* the call ends: it returns `ret` ("ok") or throws ("throw"); err is the
\* first error raised inside the call ("none" when there was none)
Finish(o, result, ret, err) ==
    [o EXCEPT !.pc = "done", !.awaiting = "none", !.pending = "none",
              !.result = result, !.ret = ret, !.error = err]

\* saveData's catch block with a fault: the error is rethrown without the
\* fallback write
SaveCatchNoWrite(o, ls, err) ==
    [op |-> [o EXCEPT !.pc = "done", !.awaiting = "none", !.pending = "none",
                      !.result = "throw", !.ret = EmptyDocument, !.error = err],
     ls |-> ls]

\* saveData's catch block: fallback write, then rethrow
SaveCatch(o, ls, err) ==
    [op |-> Finish(o, "throw", EmptyDocument, err),
     ls |-> [ls EXCEPT !.financial_data = Stringify(o.data)]]

\* loadData's catch block with a fault: the error is thrown again
LoadCatchRethrows(o, ls, err) ==
    [op |-> Finish(o, "throw", EmptyDocument, err), ls |-> ls]

\* loadData's catch block: the local copy, if any
LoadCatch(o, ls, err) ==
    LET stored == ls.financial_data IN
    [op |-> IF stored = NoItem THEN Finish(o, "ok", EmptyDocument, err)
            ELSE IF Parsable(stored) THEN Finish(o, "ok", Parse(stored), err)
            ELSE Finish(o, "throw", EmptyDocument, err),
     ls |-> ls]

\* loadData with a fault: the empty document returned for a null file id is
\* also written under financial_data
NullFileIdCachesEmpty(o, ls, err) ==
    IF o.kind = "save" THEN SaveCatch(o, ls, err)
    ELSE [op |-> Finish(o, "ok", EmptyDocument, err),
          ls |-> [ls EXCEPT !.financial_data = Stringify(EmptyDocument)]]

\* findOrCreateFile caught err and returned null to saveData / loadData
NullFileId(o, ls, err) ==
    IF o.kind = "save" THEN SaveCatch(o, ls, err)
    ELSE [op |-> Finish(o, "ok", EmptyDocument, err), ls |-> ls]

\* err is raised while the request req is being made: findOrCreateFile
\* catches it for search and create, loadData for the content GET
Thrown(o, req, ls, err) ==
    IF req \in {"search", "create"} THEN NullFileId(o, ls, err) ELSE LoadCatch(o, ls, err)

\* makeGoogleApiRequest with a fault: the expiry test is left out
MakeGoogleApiRequestNoExpiryCheck(o, req, fid, tokens, issued, ls) ==
    IF tokens = NullTokens THEN Thrown(o, req, ls, "not-authenticated")
    ELSE [op |-> Send(o, req, fid, tokens, issued), ls |-> ls]

\* makeGoogleApiRequest up to its first await
MakeGoogleApiRequest(o, req, fid, tokens, issued, ls) ==
    IF tokens = NullTokens THEN Thrown(o, req, ls, "not-authenticated")
    ELSE IF Expired(tokens) THEN
        IF CanRefresh(tokens)
        THEN [op |-> [o EXCEPT !.pc = "await", !.awaiting = "refresh", !.pending = req,
                               !.fileId = fid,
                               !.log = Append(@, [req |-> "refresh", fileId |-> 0,
                                                  access_token |-> "", stale |-> FALSE,
                                                  outcome |-> "sent", answer |-> 0])],
              ls |-> ls]
        ELSE Thrown(o, req, ls, "cannot-refresh")
    ELSE [op |-> Send(o, req, fid, tokens, issued), ls |-> ls]

\* the continuation of findOrCreateFile with a fault: saveData addresses the
\* PATCH to the id held in the call record instead of the id just returned
FoundFileUnresolvedId(o, fid, tokens, issued, ls) ==
    IF o.kind = "save"
    THEN [op |-> Send(o, "patch", o.fileId, tokens, issued), ls |-> ls]
    ELSE MakeGoogleApiRequest(o, "get", fid, tokens, issued, ls)

\* findOrCreateFile returned the id fid
FoundFile(o, fid, tokens, issued, ls) ==
    IF o.kind = "save"
    THEN [op |-> Send(o, "patch", fid, tokens, issued), ls |-> ls]
    ELSE MakeGoogleApiRequest(o, "get", fid, tokens, issued, ls)

\* the response to the awaited request (the last one of the log) has arrived
Answered(o, outcome) ==
    [o EXCEPT !.log[Len(o.log)].outcome = outcome]

\* a 2xx response that names a file: response.files[0].id, createResponse.id
AnsweredFile(o, fid) ==
    [o EXCEPT !.log[Len(o.log)].outcome = "ok", !.log[Len(o.log)].answer = fid]

\* saveData's local branch with a fault: nothing is written
SaveLocalNoWrite(o, ls) ==
    [op |-> Finish(o, "ok", EmptyDocument, "none"), ls |-> ls]

\* saveData, local branch
SaveLocal(o, ls) ==
    [op |-> Finish(o, "ok", EmptyDocument, "none"),
     ls |-> [ls EXCEPT !.financial_data = Stringify(o.data)]]

\* loadData's local branch with a fault: unparsable text is taken for no text
LoadLocalIgnoresCorrupt(o, ls) ==
    LET stored == ls.financial_data IN
    [op |-> IF stored # NoItem /\ Parsable(stored)
            THEN Finish(o, "ok", Parse(stored), "none")
            ELSE Finish(o, "ok", EmptyDocument, "none"),
     ls |-> ls]

\* loadData, local branch
LoadLocal(o, ls) ==
    LET stored == ls.financial_data IN
    [op |-> IF stored = NoItem THEN Finish(o, "ok", EmptyDocument, "none")
            ELSE IF Parsable(stored) THEN Finish(o, "ok", Parse(stored), "none")
            ELSE Finish(o, "throw", EmptyDocument, "corrupt-local"),
     ls |-> ls]

---------------------------------------------------------------------------
(* State *)

\* the tokens a user may paste into the GitHub login
GitHubTokens == {"ghA", "ghB", "ghC"}

\* no initGitHub in flight; `last` is the most recent GitHub event (history)
IdleLookup == [pc |-> "idle", token |-> Null, last |-> "none"]

\* the GitHub module when it is loaded
GitHubInit ==
    /\ octokit = Null
    /\ userData = Null
    /\ github_token = Null
    /\ lookups = IdleLookup

ConfigInputs ==
    { [type |-> "local", credentials |-> Null],
      [type |-> "google-drive", credentials |-> Null] }
    \cup { [type |-> "google-drive", credentials |-> c] : c \in Credentials }

Init ==
    /\ config = [type |-> Null, credentials |-> Null]
    /\ googleCredentials = Null
    /\ googleTokens = NullTokens
    /\ localStorage \in
         [financial_data : {NoItem, CorruptText, Stringify(<<"tx2">>)},
          google_drive_tokens : {NoItem} \cup {StringifyTokens(t) : t \in StoredTokenSets}]
    /\ driveFiles \in {<<>>, << <<>> >>, << Stringify(<<"tx1">>) >>}
    /\ now = 1
    /\ tokenIssuedAt = 1
    /\ ops = [p \in Procs |-> IdleOp]
    /\ lastReturned = NoReturn
    /\ transactions = EmptyDocument
    /\ GitHubInit

\* no call is in flight and none has a result waiting to be picked up
Quiescent == \A p \in Procs : ops[p].pc = "idle"

---------------------------------------------------------------------------
(* Operations *)

\* initialize with a fault: the google_drive_tokens key is not read
InitializeNoRestore(cfg) ==
    /\ config' = cfg
    /\ IF cfg.type = "google-drive" /\ cfg.credentials # Null
       THEN googleCredentials' = cfg.credentials
       ELSE UNCHANGED googleCredentials
    /\ lastReturned' = [NoReturn EXCEPT
                          !.kind = IF lastReturned.kind \in {"none", "start"}
                                   THEN "first-initialize" ELSE "initialize",
                          !.result = "ok"]
    /\ UNCHANGED <<googleTokens, localStorage, driveFiles, now, tokenIssuedAt, ops>>
    /\ UNCHANGED <<transactions, gitHubVars>>

\* the assignments initialize(config) makes to the service's fields
InitializeFields(cfg) ==
    /\ config' = cfg
    /\ IF cfg.type = "google-drive" /\ cfg.credentials # Null
       THEN /\ googleCredentials' = cfg.credentials
            /\ googleTokens' = IF localStorage.google_drive_tokens # NoItem
                               THEN ParseTokens(localStorage.google_drive_tokens)
                               ELSE googleTokens
       ELSE UNCHANGED <<googleCredentials, googleTokens>>

\* initialize(config)
Initialize(cfg) ==
    /\ InitializeFields(cfg)
    /\ lastReturned' = [NoReturn EXCEPT
                          !.kind = IF lastReturned.kind \in {"none", "start"}
                                   THEN "first-initialize" ELSE "initialize",
                          !.result = "ok"]
    /\ UNCHANGED <<localStorage, driveFiles, now, tokenIssuedAt, ops>>
    /\ UNCHANGED <<transactions, gitHubVars>>

\* getAuthUrl(): no await inside, the promise settles at once
GetAuthUrl(p) ==
    /\ ops[p].pc = "idle"
    /\ LET o == [IdleOp EXCEPT !.kind = "authurl"] IN
       ops' = [ops EXCEPT ![p] =
                 IF googleCredentials = Null
                 THEN Finish(o, "throw", EmptyDocument, "not-initialized")
                 ELSE Finish(o, "ok", EmptyDocument, "none")]
    /\ UNCHANGED <<config, googleCredentials, googleTokens, localStorage, driveFiles,
                   now, tokenIssuedAt, lastReturned>>
    /\ UNCHANGED <<transactions, gitHubVars>>

\* handleAuthCallback with a fault: the credentials test is left out
HandleAuthCallbackNoGuard(p) ==
    /\ ops[p].pc = "idle"
    /\ ops' = [ops EXCEPT ![p] =
                 [IdleOp EXCEPT !.kind = "auth", !.pc = "await", !.awaiting = "token",
                                !.log = <<[req |-> "token", fileId |-> 0,
                                           access_token |-> "", stale |-> FALSE,
                                           outcome |-> "sent", answer |-> 0]>>]]
    /\ UNCHANGED <<config, googleCredentials, googleTokens, localStorage, driveFiles,
                   now, tokenIssuedAt, lastReturned>>
    /\ UNCHANGED <<transactions, gitHubVars>>

\* handleAuthCallback(code) up to the token request
HandleAuthCallback(p) ==
    /\ ops[p].pc = "idle"
    /\ LET o == [IdleOp EXCEPT !.kind = "auth"] IN
       ops' = [ops EXCEPT ![p] =
                 IF googleCredentials = Null
                 THEN Finish(o, "throw", EmptyDocument, "not-initialized")
                 ELSE [o EXCEPT !.pc = "await", !.awaiting = "token",
                                !.log = <<[req |-> "token", fileId |-> 0,
                                           access_token |-> "", stale |-> FALSE,
                                           outcome |-> "sent", answer |-> 0]>>]]
    /\ UNCHANGED <<config, googleCredentials, googleTokens, localStorage, driveFiles,
                   now, tokenIssuedAt, lastReturned>>
    /\ UNCHANGED <<transactions, gitHubVars>>

\* handleAuthCallback with a fault: the token set is written to localStorage
\* but not assigned to this.googleTokens
TokenResponseStoreOnly(p) ==
    /\ ops[p].pc = "await" /\ ops[p].awaiting = "token"
    /\ \/ \E r \in {"", "R1"} :
            LET tokens == [access_token |-> "auth", refresh_token |-> r,
                           expires_in |-> ExpiresIn, expiry_date |-> 0] IN
            /\ localStorage' = [localStorage EXCEPT
                                  !.google_drive_tokens = StringifyTokens(tokens)]
            /\ ops' = [ops EXCEPT ![p] =
                         Finish(Answered(ops[p], "ok"), "ok", EmptyDocument, "none")]
            /\ UNCHANGED <<googleTokens, tokenIssuedAt>>
       \/ /\ ops' = [ops EXCEPT ![p] =
                         Finish(Answered(ops[p], "fail"), "throw", EmptyDocument, "token-failed")]
          /\ UNCHANGED <<googleTokens, localStorage, tokenIssuedAt>>
    /\ UNCHANGED <<config, googleCredentials, driveFiles, now, lastReturned>>
    /\ UNCHANGED <<transactions, gitHubVars>>

\* handleAuthCallback with a fault: the token set is assigned to
\* this.googleTokens but not written to localStorage
TokenResponseMemoryOnly(p) ==
    /\ ops[p].pc = "await" /\ ops[p].awaiting = "token"
    /\ \/ \E r \in {"", "R1"} :
            /\ googleTokens' = [access_token |-> "auth", refresh_token |-> r,
                                expires_in |-> ExpiresIn, expiry_date |-> 0]
            /\ tokenIssuedAt' = now
            /\ ops' = [ops EXCEPT ![p] =
                         Finish(Answered(ops[p], "ok"), "ok", EmptyDocument, "none")]
            /\ UNCHANGED localStorage
       \/ /\ ops' = [ops EXCEPT ![p] =
                         Finish(Answered(ops[p], "fail"), "throw", EmptyDocument, "token-failed")]
          /\ UNCHANGED <<googleTokens, localStorage, tokenIssuedAt>>
    /\ UNCHANGED <<config, googleCredentials, driveFiles, now, lastReturned>>
    /\ UNCHANGED <<transactions, gitHubVars>>

\* handleAuthCallback with a fault: a refused exchange discards the token
\* set held so far
TokenResponseClearsOnFailure(p) ==
    /\ ops[p].pc = "await" /\ ops[p].awaiting = "token"
    /\ \/ \E r \in {"", "R1"} :
            LET tokens == [access_token |-> "auth", refresh_token |-> r,
                           expires_in |-> ExpiresIn, expiry_date |-> 0] IN
            /\ googleTokens' = tokens
            /\ localStorage' = [localStorage EXCEPT
                                  !.google_drive_tokens = StringifyTokens(tokens)]
            /\ tokenIssuedAt' = now
            /\ ops' = [ops EXCEPT ![p] =
                         Finish(Answered(ops[p], "ok"), "ok", EmptyDocument, "none")]
       \/ /\ ops' = [ops EXCEPT ![p] =
                         Finish(Answered(ops[p], "fail"), "throw", EmptyDocument, "token-failed")]
          /\ googleTokens' = NullTokens
          /\ UNCHANGED <<localStorage, tokenIssuedAt>>
    /\ UNCHANGED <<config, googleCredentials, driveFiles, now, lastReturned>>
    /\ UNCHANGED <<transactions, gitHubVars>>

\* the token endpoint answers the authorization-code exchange
TokenResponse(p) ==
    /\ ops[p].pc = "await" /\ ops[p].awaiting = "token"
    /\ \/ \E r \in {"", "R1"} :
            LET tokens == [access_token |-> "auth", refresh_token |-> r,
                           expires_in |-> ExpiresIn, expiry_date |-> 0] IN
            /\ googleTokens' = tokens
            /\ localStorage' = [localStorage EXCEPT
                                  !.google_drive_tokens = StringifyTokens(tokens)]
            /\ tokenIssuedAt' = now
            /\ ops' = [ops EXCEPT ![p] =
                         Finish(Answered(ops[p], "ok"), "ok", EmptyDocument, "none")]
       \/ /\ ops' = [ops EXCEPT ![p] =
                         Finish(Answered(ops[p], "fail"), "throw", EmptyDocument, "token-failed")]
          /\ UNCHANGED <<googleTokens, localStorage, tokenIssuedAt>>
    /\ UNCHANGED <<config, googleCredentials, driveFiles, now, lastReturned>>
    /\ UNCHANGED <<transactions, gitHubVars>>

\* saveData(data) up to its first await
SaveData(p, data) ==
    /\ ops[p].pc = "idle"
    /\ LET storageType == GetStorageType(googleTokens, config)
           o == [IdleOp EXCEPT !.kind = "save", !.data = data,
                               !.storageType = storageType]
           r == IF storageType = "local"
                THEN SaveLocal(o, localStorage)
                ELSE MakeGoogleApiRequest(o, "search", 0, googleTokens, tokenIssuedAt,
                                          localStorage)
       IN /\ ops' = [ops EXCEPT ![p] = r.op]
          /\ localStorage' = r.ls
    /\ UNCHANGED <<config, googleCredentials, googleTokens, driveFiles, now,
                   tokenIssuedAt, lastReturned>>
    /\ UNCHANGED <<transactions, gitHubVars>>

\* loadData() up to its first await
LoadData(p) ==
    /\ ops[p].pc = "idle"
    /\ LET storageType == GetStorageType(googleTokens, config)
           o == [IdleOp EXCEPT !.kind = "load", !.storageType = storageType]
           r == IF storageType = "local"
                THEN LoadLocal(o, localStorage)
                ELSE MakeGoogleApiRequest(o, "search", 0, googleTokens, tokenIssuedAt,
                                          localStorage)
       IN /\ ops' = [ops EXCEPT ![p] = r.op]
          /\ localStorage' = r.ls
    /\ UNCHANGED <<config, googleCredentials, googleTokens, driveFiles, now,
                   tokenIssuedAt, lastReturned>>
    /\ UNCHANGED <<transactions, gitHubVars>>

\* refreshTokens with a fault: the response is stored as received
RefreshedTokensAsReceived(old, r) ==
    [access_token |-> "refreshed", refresh_token |-> r,
     expires_in |-> ExpiresIn, expiry_date |-> 0]

\* the token set refreshTokens stores: the response, with the previous
\* refresh_token kept when the response has none (r = "")
RefreshedTokens(old, r) ==
    [access_token |-> "refreshed",
     refresh_token |-> IF r = "" /\ old.refresh_token # "" THEN old.refresh_token ELSE r,
     expires_in |-> ExpiresIn, expiry_date |-> 0]

\* the token endpoint answers refreshTokens; on success the request that was
\* waiting for the refresh is sent
RefreshResponse(p) ==
    /\ ops[p].pc = "await" /\ ops[p].awaiting = "refresh"
    /\ \/ \E r \in {"", "R1"} :
            LET newTokens == RefreshedTokens(googleTokens, r)
                o == Answered(ops[p], "ok")
            IN
            /\ googleTokens' = newTokens
            /\ localStorage' = [localStorage EXCEPT
                                  !.google_drive_tokens = StringifyTokens(newTokens)]
            /\ tokenIssuedAt' = now
            /\ ops' = [ops EXCEPT ![p] =
                         Send([o EXCEPT !.pending = "none"], o.pending, o.fileId,
                              newTokens, now)]
       \/ LET o == Answered(ops[p], "fail")
              r == Thrown(o, o.pending, localStorage, "refresh-failed")
          IN /\ ops' = [ops EXCEPT ![p] = r.op]
             /\ localStorage' = r.ls
             /\ UNCHANGED <<googleTokens, tokenIssuedAt>>
    /\ UNCHANGED <<config, googleCredentials, driveFiles, now, lastReturned>>
    /\ UNCHANGED <<transactions, gitHubVars>>

\* findOrCreateFile with a fault: the search result is not looked at and a
\* file is created every time
SearchResponseAlwaysCreates(p) ==
    /\ ops[p].pc = "await" /\ ops[p].awaiting = "search"
    /\ \/ LET found == IF Len(driveFiles) > 0 THEN 1 ELSE 0
              o == AnsweredFile(ops[p], found)
              r == MakeGoogleApiRequest(o, "create", 0, googleTokens, tokenIssuedAt,
                                        localStorage)
          IN /\ ops' = [ops EXCEPT ![p] = r.op]
             /\ localStorage' = r.ls
       \/ LET r == NullFileId(Answered(ops[p], "fail"), localStorage, "api-error")
          IN /\ ops' = [ops EXCEPT ![p] = r.op]
             /\ localStorage' = r.ls
    /\ UNCHANGED <<config, googleCredentials, googleTokens, driveFiles, now,
                   tokenIssuedAt, lastReturned>>
    /\ UNCHANGED <<transactions, gitHubVars>>

\* Drive answers the search for FILE_NAME (findOrCreateFile)
SearchResponse(p) ==
    /\ ops[p].pc = "await" /\ ops[p].awaiting = "search"
    /\ \/ LET found == IF Len(driveFiles) > 0 THEN 1 ELSE 0
              o == AnsweredFile(ops[p], found)
              r == IF found # 0
                   THEN FoundFile(o, found, googleTokens, tokenIssuedAt, localStorage)
                   ELSE MakeGoogleApiRequest(o, "create", 0, googleTokens, tokenIssuedAt,
                                             localStorage)
          IN /\ ops' = [ops EXCEPT ![p] = r.op]
             /\ localStorage' = r.ls
       \/ LET r == NullFileId(Answered(ops[p], "fail"), localStorage, "api-error")
          IN /\ ops' = [ops EXCEPT ![p] = r.op]
             /\ localStorage' = r.ls
    /\ UNCHANGED <<config, googleCredentials, googleTokens, driveFiles, now,
                   tokenIssuedAt, lastReturned>>
    /\ UNCHANGED <<transactions, gitHubVars>>

\* findOrCreateFile with a fault: the id of a created file is kept in a field
\* shared by all calls and set only once
CreateResponseSharedId(p) ==
    /\ ops[p].pc = "await" /\ ops[p].awaiting = "create"
    /\ \/ LET created == {ops[q].fileId : q \in {q \in Procs \ {p} : ops[q].fileId # 0}}
              id == IF created = {} THEN Len(driveFiles) + 1
                    ELSE CHOOSE f \in created : TRUE
              o == AnsweredFile(ops[p], Len(driveFiles) + 1)
              r == FoundFile(o, id, googleTokens, tokenIssuedAt, localStorage)
          IN /\ driveFiles' = Append(driveFiles, <<>>)
             /\ ops' = [ops EXCEPT ![p] = r.op]
             /\ localStorage' = r.ls
       \/ LET r == NullFileId(Answered(ops[p], "fail"), localStorage, "api-error")
          IN /\ ops' = [ops EXCEPT ![p] = r.op]
             /\ localStorage' = r.ls
             /\ UNCHANGED driveFiles
    /\ UNCHANGED <<config, googleCredentials, googleTokens, now, tokenIssuedAt,
                   lastReturned>>
    /\ UNCHANGED <<transactions, gitHubVars>>

\* Drive answers the create request (findOrCreateFile)
CreateResponse(p) ==
    /\ ops[p].pc = "await" /\ ops[p].awaiting = "create"
    /\ \/ LET o == AnsweredFile(ops[p], Len(driveFiles) + 1)
              r == FoundFile(o, Len(driveFiles) + 1, googleTokens, tokenIssuedAt,
                             localStorage)
          IN /\ driveFiles' = Append(driveFiles, <<>>)
             /\ ops' = [ops EXCEPT ![p] = r.op]
             /\ localStorage' = r.ls
       \/ LET r == NullFileId(Answered(ops[p], "fail"), localStorage, "api-error")
          IN /\ ops' = [ops EXCEPT ![p] = r.op]
             /\ localStorage' = r.ls
             /\ UNCHANGED driveFiles
    /\ UNCHANGED <<config, googleCredentials, googleTokens, now, tokenIssuedAt,
                   lastReturned>>
    /\ UNCHANGED <<transactions, gitHubVars>>

\* the PATCH with a fault in its body: Drive answers 2xx and the file's
\* content stays as it was
PatchResponseContentLost(p) ==
    /\ ops[p].pc = "await" /\ ops[p].awaiting = "patch"
    /\ ops' = [ops EXCEPT ![p] =
                 Finish(Answered(ops[p], "ok"), "ok", EmptyDocument, "none")]
    /\ UNCHANGED <<config, googleCredentials, googleTokens, localStorage, driveFiles,
                   now, tokenIssuedAt, lastReturned>>
    /\ UNCHANGED <<transactions, gitHubVars>>

\* saveData with a fault: the payload is kept in a field shared by all calls,
\* so a PATCH carries the payload of the call that started most recently
PatchResponseSharedPayload(p) ==
    /\ ops[p].pc = "await" /\ ops[p].awaiting = "patch"
    /\ \/ LET others == {q \in Procs \ {p} : ops[q].kind = "save"}
              payload == IF others = {} THEN ops[p].data
                         ELSE ops[CHOOSE q \in others : TRUE].data
          IN /\ driveFiles' = [driveFiles EXCEPT ![ops[p].fileId] = Stringify(payload)]
             /\ ops' = [ops EXCEPT ![p] =
                          Finish(Answered(ops[p], "ok"), "ok", EmptyDocument, "none")]
             /\ UNCHANGED localStorage
       \/ LET r == SaveCatch(Answered(ops[p], "fail"), localStorage, "update-failed")
          IN /\ ops' = [ops EXCEPT ![p] = r.op]
             /\ localStorage' = r.ls
             /\ UNCHANGED driveFiles
    /\ UNCHANGED <<config, googleCredentials, googleTokens, now, tokenIssuedAt,
                   lastReturned>>
    /\ UNCHANGED <<transactions, gitHubVars>>

\* saveData with a fault: a document Drive accepted is written under
\* financial_data as well
PatchResponseWritesThrough(p) ==
    /\ ops[p].pc = "await" /\ ops[p].awaiting = "patch"
    /\ \/ /\ driveFiles' = [driveFiles EXCEPT ![ops[p].fileId] = Stringify(ops[p].data)]
          /\ ops' = [ops EXCEPT ![p] =
                       Finish(Answered(ops[p], "ok"), "ok", EmptyDocument, "none")]
          /\ localStorage' = [localStorage EXCEPT
                                !.financial_data = Stringify(ops[p].data)]
       \/ LET r == SaveCatch(Answered(ops[p], "fail"), localStorage, "update-failed")
          IN /\ ops' = [ops EXCEPT ![p] = r.op]
             /\ localStorage' = r.ls
             /\ UNCHANGED driveFiles
    /\ UNCHANGED <<config, googleCredentials, googleTokens, now, tokenIssuedAt,
                   lastReturned>>
    /\ UNCHANGED <<transactions, gitHubVars>>

\* Drive answers the multipart PATCH of saveData
PatchResponse(p) ==
    /\ ops[p].pc = "await" /\ ops[p].awaiting = "patch"
    /\ \/ /\ driveFiles' = [driveFiles EXCEPT ![ops[p].fileId] = Stringify(ops[p].data)]
          /\ ops' = [ops EXCEPT ![p] =
                       Finish(Answered(ops[p], "ok"), "ok", EmptyDocument, "none")]
          /\ UNCHANGED localStorage
       \/ LET r == SaveCatch(Answered(ops[p], "fail"), localStorage, "update-failed")
          IN /\ ops' = [ops EXCEPT ![p] = r.op]
             /\ localStorage' = r.ls
             /\ UNCHANGED driveFiles
    /\ UNCHANGED <<config, googleCredentials, googleTokens, now, tokenIssuedAt,
                   lastReturned>>
    /\ UNCHANGED <<transactions, gitHubVars>>

\* Drive answers the content GET of loadData
GetResponse(p) ==
    /\ ops[p].pc = "await" /\ ops[p].awaiting = "get"
    /\ \/ LET o == Answered(ops[p], "ok")
              content == driveFiles[o.fileId]
          IN ops' = [ops EXCEPT ![p] =
                       IF Parsable(content)
                       THEN Finish(o, "ok", Parse(content), "none")
                       ELSE LoadCatch(o, localStorage, "body-not-json").op]
       \/ ops' = [ops EXCEPT ![p] =
                    LoadCatch(Answered(ops[p], "fail"), localStorage, "api-error").op]
    /\ UNCHANGED <<config, googleCredentials, googleTokens, localStorage, driveFiles,
                   now, tokenIssuedAt, lastReturned>>
    /\ UNCHANGED <<transactions, gitHubVars>>

\* the caller's await resumes with the call's result
Return(p) ==
    /\ ops[p].pc = "done"
    /\ lastReturned' = [kind |-> ops[p].kind, storageType |-> ops[p].storageType,
                        data |-> ops[p].data, result |-> ops[p].result]
    /\ ops' = [ops EXCEPT ![p] = IdleOp]
    /\ UNCHANGED <<config, googleCredentials, googleTokens, localStorage, driveFiles,
                   now, tokenIssuedAt>>
    /\ UNCHANGED <<transactions, gitHubVars>>

\* the page is loaded again: the module is evaluated anew and a DataService
\* is constructed with its field initialisers; localStorage and Drive persist
NewDataService ==
    /\ config' = [type |-> Null, credentials |-> Null]
    /\ googleCredentials' = Null
    /\ googleTokens' = NullTokens
    /\ lastReturned' = [NoReturn EXCEPT !.kind = "start"]
    /\ UNCHANGED <<localStorage, driveFiles, now, tokenIssuedAt, ops>>
    /\ UNCHANGED <<transactions, gitHubVars>>

\* time passes
Tick ==
    /\ now < MaxTime
    /\ now' = now + 1
    /\ UNCHANGED <<config, googleCredentials, googleTokens, localStorage, driveFiles,
                   tokenIssuedAt, ops, lastReturned>>
    /\ UNCHANGED <<transactions, gitHubVars>>

\* One caller at a time: the caller awaits each call before it makes the next.
Caller == "p1"

Next ==
    \/ Quiescent /\ \E cfg \in ConfigInputs : Initialize(cfg)
    \/ Quiescent /\ NewDataService
    \/ Quiescent /\ GetAuthUrl(Caller)
    \/ Quiescent /\ HandleAuthCallback(Caller)
    \/ Quiescent /\ \E data \in Documents : SaveData(Caller, data)
    \/ Quiescent /\ LoadData(Caller)
    \/ TokenResponse(Caller)
    \/ RefreshResponse(Caller)
    \/ SearchResponse(Caller)
    \/ CreateResponse(Caller)
    \/ PatchResponse(Caller)
    \/ GetResponse(Caller)
    \/ Return(Caller)
    \/ Tick

Spec == Init /\ [][Next]_vars

\* Overlapping calls: the click handlers and effects of App.tsx call saveData
\* and loadData without waiting for an earlier call to settle, so two calls
\* can be between their awaits at once. The page has been opened with a token
\* set under google_drive_tokens, and the mount effect has initialized the
\* service with type google-drive and credentials.
\* the documents handleAddTransaction saves: the list with a transaction added
AddedDocuments == {d \in Documents : Len(d) = MaxTransactions}

InitOverlap ==
    /\ config = [type |-> "google-drive", credentials |-> "credA"]
    /\ googleCredentials = "credA"
    /\ googleTokens \in {t \in StoredTokenSets : t.expiry_date = 0}
    /\ localStorage \in
         [financial_data : {NoItem, Stringify(<<"tx2">>)},
          google_drive_tokens : {StringifyTokens(googleTokens)}]
    /\ driveFiles \in {<<>>, << <<>> >>, << Stringify(<<"tx1">>) >>}
    /\ now = 1
    /\ tokenIssuedAt = 1
    /\ ops = [p \in Procs |-> IdleOp]
    /\ lastReturned = [NoReturn EXCEPT !.kind = "first-initialize", !.result = "ok"]
    /\ transactions = EmptyDocument
    /\ GitHubInit

NextOverlap ==
    \/ \E p \in Procs, data \in AddedDocuments : SaveData(p, data)
    \/ \E p \in Procs : LoadData(p)
    \/ \E p \in Procs : SearchResponse(p)
    \/ \E p \in Procs : CreateResponse(p)
    \/ \E p \in Procs : PatchResponse(p)
    \/ \E p \in Procs : GetResponse(p)
    \/ \E p \in Procs : Return(p)

SpecOverlap == InitOverlap /\ [][NextOverlap]_vars

\* The page opened at /auth/callback: App and, inside its router, the
\* GoogleAuthCallback component mount in one commit. Each runs its effect
\* once; the effects' synchronous parts run one after the other in either
\* order, and handleCallback continues past its first await afterwards.
\* Slot "p2" records that App's effect has run, slot "p1" carries
\* handleCallback and the calls made after it.
Callback == "p1"
Mount == "p2"

\* App's mount effect: initializeDataService
MountEffect ==
    /\ ops[Mount] = IdleOp
    /\ ops[Callback].kind \in {"none", "callback"}
    /\ lastReturned.kind \in {"none", "first-initialize"}
    /\ LET hasGoogleTokens == localStorage.google_drive_tokens # NoItem IN
       InitializeFields(IF hasGoogleTokens
                        THEN [type |-> "google-drive", credentials |-> "credA"]
                        ELSE [type |-> "local", credentials |-> Null])
    /\ ops' = [ops EXCEPT ![Mount] = Finish([IdleOp EXCEPT !.kind = "mount"],
                                             "ok", EmptyDocument, "none")]
    /\ lastReturned' = [NoReturn EXCEPT
                          !.kind = IF lastReturned.kind = "none"
                                   THEN "first-initialize" ELSE "initialize",
                          !.result = "ok"]
    /\ UNCHANGED <<localStorage, driveFiles, now, tokenIssuedAt>>
    /\ UNCHANGED <<transactions, gitHubVars>>

\* GoogleAuthCallback's effect, handleCallback, up to its first await
CallbackInitialize ==
    /\ ops[Callback] = IdleOp
    /\ lastReturned.kind \in {"none", "first-initialize"}
    /\ InitializeFields([type |-> "google-drive", credentials |-> "credA"])
    /\ ops' = [ops EXCEPT ![Callback] = [IdleOp EXCEPT !.kind = "callback"]]
    /\ lastReturned' = [NoReturn EXCEPT
                          !.kind = IF lastReturned.kind = "none"
                                   THEN "first-initialize" ELSE "initialize",
                          !.result = "ok"]
    /\ UNCHANGED <<localStorage, driveFiles, now, tokenIssuedAt>>
    /\ UNCHANGED <<transactions, gitHubVars>>

\* both effects have run and the code exchange has succeeded
Authorized == lastReturned.kind = "auth" /\ lastReturned.result = "ok"

NextMount ==
    \/ MountEffect
    \/ CallbackInitialize
    \/ ops[Callback].kind = "callback" /\ ops[Mount].pc = "done"
         /\ HandleAuthCallback(Callback)
    \/ TokenResponse(Callback)
    \/ Authorized /\ \E data \in AddedDocuments : SaveData(Callback, data)
    \/ SearchResponse(Callback)
    \/ CreateResponse(Callback)
    \/ PatchResponse(Callback)
    \/ Return(Callback)

SpecMount == Init /\ [][NextMount]_vars

\* The App component on the main page, after its mount effects: the service
\* is initialized with type google-drive exactly when a token set was found
\* under google_drive_tokens, and `transactions` is still the empty list of
\* useState until the load effect's loadData returns.
InitApp ==
    /\ config \in {[type |-> "local", credentials |-> Null],
                    [type |-> "google-drive", credentials |-> "credA"]}
    /\ googleCredentials = config.credentials
    /\ googleTokens \in IF config.type = "google-drive"
                         THEN {t \in StoredTokenSets : t.expiry_date = 0}
                         ELSE {NullTokens}
    /\ localStorage \in
         [financial_data : {NoItem, Stringify(<<"tx1">>)},
          google_drive_tokens : {IF config.type = "google-drive"
                                 THEN StringifyTokens(googleTokens) ELSE NoItem}]
    /\ driveFiles \in {<<>>, << Stringify(<<"tx1">>) >>, << Stringify(<<"tx2">>) >>}
    /\ now = 1
    /\ tokenIssuedAt = 1
    /\ ops = [p \in Procs |-> IdleOp]
    /\ lastReturned = [NoReturn EXCEPT !.kind = "first-initialize", !.result = "ok"]
    /\ transactions = EmptyDocument
    /\ GitHubInit

\* transactions.filter(t => t.id !== transactionId)
Filter(list, transactionId) == SelectSeq(list, LAMBDA t : t # transactionId)

\* handleDeleteTransaction up to its await: saveData of the filtered list
HandleDeleteTransaction(p, transactionId) ==
    /\ \E i \in 1..Len(transactions) : transactions[i] = transactionId
    /\ SaveData(p, Filter(transactions, transactionId))

\* the await in an App handler resumes: handleDeleteTransaction and the
\* loaders call setTransactions when the call returned, the catch blocks
\* leave the list alone
AppResume(p) ==
    /\ ops[p].pc = "done"
    /\ transactions' = IF ops[p].result # "ok" THEN transactions
                       ELSE IF ops[p].kind = "load" THEN ops[p].ret
                       ELSE ops[p].data
    /\ lastReturned' = [kind |-> ops[p].kind, storageType |-> ops[p].storageType,
                        data |-> ops[p].data, result |-> ops[p].result]
    /\ ops' = [ops EXCEPT ![p] = IdleOp]
    /\ UNCHANGED <<config, googleCredentials, googleTokens, localStorage, driveFiles,
                   now, tokenIssuedAt, gitHubVars>>

NextApp ==
    \/ Quiescent /\ LoadData(Caller)
    \/ Quiescent /\ \E t \in Transactions : HandleDeleteTransaction(Caller, t)
    \/ SearchResponse(Caller)
    \/ CreateResponse(Caller)
    \/ PatchResponse(Caller)
    \/ GetResponse(Caller)
    \/ AppResume(Caller)

SpecApp == InitApp /\ [][NextApp]_vars

\* The GitHub persistence module (src/unnamed/part_004).
serviceVars == <<config, googleCredentials, googleTokens, localStorage, driveFiles,
                 now, tokenIssuedAt, ops, lastReturned, transactions>>

\* initGitHub(token) up to its await: the client is built and the token
\* stored before the user lookup is sent
InitGitHub(token) ==
    /\ lookups.pc = "idle"
    /\ octokit' = token
    /\ github_token' = token
    /\ lookups' = [lookups EXCEPT !.pc = "await", !.token = token]
    /\ UNCHANGED <<userData, serviceVars>>

\* initGitHub("") returns null at once
InitGitHubNoToken ==
    /\ lookups.pc = "idle"
    /\ lookups' = [lookups EXCEPT !.last = "no-token"]
    /\ UNCHANGED <<octokit, userData, github_token, serviceVars>>

\* GitHub answers users.getAuthenticated: with the user, or with an error
\* that initGitHub lets through to its caller
LookupResponse ==
    /\ lookups.pc = "await"
    /\ \/ /\ userData' = lookups.token
          /\ lookups' = [pc |-> "idle", token |-> Null, last |-> "ok"]
       \/ /\ lookups' = [pc |-> "idle", token |-> lookups.token, last |-> "fail"]
          /\ UNCHANGED userData
    /\ UNCHANGED <<octokit, github_token, serviceVars>>

\* logoutGitHub()
LogoutGitHub ==
    /\ github_token' = Null
    /\ octokit' = Null
    /\ userData' = Null
    /\ lookups' = IF lookups.pc = "idle"
                  THEN [pc |-> "idle", token |-> Null, last |-> "logout"]
                  ELSE lookups
    /\ UNCHANGED serviceVars

\* isAuthenticated()
IsAuthenticated == octokit # Null /\ userData # Null

NextGitHub ==
    \/ \E token \in GitHubTokens : InitGitHub(token)
    \/ InitGitHubNoToken
    \/ LookupResponse
    \/ LogoutGitHub

SpecGitHub == Init /\ [][NextGitHub]_vars

---------------------------------------------------------------------------
(* Vocabulary of the properties *)

\* the call in slot p has ended and its result has not been picked up yet
Done(p, kind) == ops[p].pc = "done" /\ ops[p].kind = kind

\* the requests to the Drive API, as opposed to the token endpoint
DocumentApi == {"search", "create", "get", "patch"}

\* the kinds of the requests a call has sent, in order
Requests(o) == [i \in 1..Len(o.log) |-> o.log[i].req]

\* every request of the call was answered 2xx and the call was not stopped
\* by a token it could not use or renew
RemoteWorked(o) ==
    /\ \A i \in 1..Len(o.log) : o.log[i].outcome = "ok"
    /\ o.error \notin {"not-authenticated", "cannot-refresh"}

---------------------------------------------------------------------------
(* Properties *)

\* C1: a loadData that directly follows a saveData(d) that returned normally,
\* on the same backend and with every remote call succeeding, returns d.
C1_RoundTrip ==
    \A p \in Procs :
        ( /\ Done(p, "load")
          /\ lastReturned.kind = "save" /\ lastReturned.result = "ok"
          /\ ops[p].storageType = lastReturned.storageType
          /\ RemoteWorked(ops[p]) )
        => (ops[p].result = "ok" /\ ops[p].ret = lastReturned.data)

\* C1 witness: a Drive round trip of a non-empty document that Drive did not
\* hold before
C1_Witness ==
    \E p \in Procs :
        /\ Done(p, "load") /\ ops[p].storageType = "google-drive"
        /\ lastReturned.kind = "save" /\ lastReturned.result = "ok"
        /\ lastReturned.storageType = "google-drive"
        /\ lastReturned.data = <<"tx2">>
        /\ RemoteWorked(ops[p]) /\ ops[p].ret = <<"tx2">>

\* C2: a saveData(d) on the Drive backend that meets an error has written d
\* under the local document key when it ends, ends by throwing, and a local
\* load of that store returns d.
C2_FallbackWrite ==
    \A p \in Procs :
        (Done(p, "save") /\ ops[p].storageType = "google-drive" /\ ops[p].error # "none")
        => /\ ops[p].result = "throw"
           /\ localStorage.financial_data = Stringify(ops[p].data)
           /\ LoadLocal(IdleOp, localStorage).op.result = "ok"
           /\ LoadLocal(IdleOp, localStorage).op.ret = ops[p].data

\* C2 witness: the PATCH was refused and the document is under the local key
C2_Witness ==
    \E p \in Procs :
        /\ Done(p, "save") /\ ops[p].error = "update-failed"
        /\ ops[p].data = <<"tx1">>
        /\ localStorage.financial_data = Stringify(<<"tx1">>)

\* C3 (as claimed): a loadData on the Drive backend never throws.
C3_RemoteLoadNeverThrows ==
    \A p \in Procs :
        (Done(p, "load") /\ ops[p].storageType = "google-drive")
        => ops[p].result = "ok"

\* the remote failure cases of C4: (a) findOrCreateFile returned null,
\* (b) the file id was resolved and the content fetch failed
HandleUnresolved(o) == o.fileId = 0 /\ o.error # "none"
ContentFetchFailed(o) == o.fileId # 0 /\ o.error # "none"

\* C4 (as claimed): a loadData on the Drive backend that meets a remote
\* failure returns the local copy when there is one.
C4_RemoteLoadFallsBackToLocalCopy ==
    \A p \in Procs :
        ( /\ Done(p, "load") /\ ops[p].storageType = "google-drive"
          /\ Parsable(localStorage.financial_data)
          /\ (HandleUnresolved(ops[p]) \/ ContentFetchFailed(ops[p])) )
        => (ops[p].result = "ok" /\ ops[p].ret = Parse(localStorage.financial_data))

\* C5: the backend a saveData or loadData works on is Drive exactly when the
\* configured type is google-drive and a token set is in memory.
C5_BackendResolution ==
    \A p \in Procs :
        ops[p].kind \in {"save", "load"}
        => ( ops[p].storageType = "google-drive"
             <=> (config.type = "google-drive" /\ googleTokens # NullTokens) )

\* C5 witness: the token set obtained by handleAuthCallback has switched the
\* next saveData to Drive, and an initialize with type local has switched a
\* later call back while the token set stayed in memory
C5_Witness ==
    \E p \in Procs :
        /\ ops[p].kind = "save" /\ ops[p].storageType = "local"
        /\ config.type = "local" /\ googleTokens.access_token = "auth"

\* C6: a saveData(d) started while the local backend is active ends in the
\* same step, leaves Stringify(d) under the local document key, sends no
\* request and changes neither the token set (in memory or stored), the
\* credentials, the configuration nor Drive.
C6_LocalSaveFrame ==
    [][ \A p \in Procs :
          ( /\ ops[p].pc = "idle" /\ ops'[p].kind = "save"
            /\ (config.type # "google-drive" \/ googleTokens = NullTokens) )
          => /\ ops'[p].pc = "done" /\ ops'[p].result = "ok"
             /\ ops'[p].log = <<>>
             /\ localStorage'.financial_data = Stringify(ops'[p].data)
             /\ localStorage'.google_drive_tokens = localStorage.google_drive_tokens
             /\ UNCHANGED <<config, googleCredentials, googleTokens, driveFiles>> ]_vars

\* C6 witness: type google-drive is configured, no token set is held, and a
\* saveData of a document has ended on the local backend
C6_Witness ==
    \E p \in Procs :
        /\ Done(p, "save") /\ ops[p].storageType = "local"
        /\ config.type = "google-drive" /\ googleTokens = NullTokens
        /\ ops[p].data = <<"tx1">>
        /\ localStorage.financial_data = Stringify(<<"tx1">>)

\* C7: a saveData on Drive that returns normally without a token refresh has
\* sent one search, then one create exactly when the search named no file,
\* then one PATCH to the file id that this call's search or create returned.
C7_SaveRequestSequence ==
    \A p \in Procs :
        ( /\ Done(p, "save") /\ ops[p].storageType = "google-drive"
          /\ ops[p].result = "ok"
          /\ \A i \in 1..Len(ops[p].log) : ops[p].log[i].req # "refresh" )
        => LET o == ops[p] IN
           /\ Len(o.log) >= 2
           /\ IF o.log[1].answer # 0
              THEN /\ Requests(o) = <<"search", "patch">>
                   /\ o.log[2].fileId = o.log[1].answer
              ELSE /\ Requests(o) = <<"search", "create", "patch">>
                   /\ o.log[3].fileId = o.log[2].answer

\* C7 witness: a save that had to create the file
C7_Witness ==
    \E p \in Procs :
        /\ Done(p, "save") /\ ops[p].result = "ok"
        /\ Requests(ops[p]) = <<"search", "create", "patch">>

\* C8: when a saveData(d) has returned normally, the store of the backend it
\* worked on holds the text of d, which parses to d.
C8_SavedDocumentHeld ==
    \A p \in Procs :
        (Done(p, "save") /\ ops[p].result = "ok")
        => LET text == IF ops[p].storageType = "local"
                       THEN localStorage.financial_data
                       ELSE driveFiles[ops[p].fileId]
           IN /\ text = Stringify(ops[p].data)
              /\ Parsable(text) /\ Parse(text) = ops[p].data

\* C8 witness: a save on Drive has replaced the file's earlier content
C8_Witness ==
    \E p \in Procs :
        /\ Done(p, "save") /\ ops[p].result = "ok"
        /\ ops[p].storageType = "google-drive"
        /\ ops[p].data = <<"tx2">>
        /\ Requests(ops[p]) = <<"search", "patch">>
        /\ driveFiles[ops[p].fileId] = Stringify(<<"tx2">>)

\* C9 (as claimed): no request to the Drive API leaves with an access token
\* that has expired.
C9_NoRequestWithExpiredToken ==
    \A p \in Procs : \A i \in 1..Len(ops[p].log) :
        ops[p].log[i].req \in DocumentApi => ~ops[p].log[i].stale

\* C10 (as claimed): once the lifetime of the token set obtained by
\* handleAuthCallback has elapsed, a saveData or loadData on Drive does not
\* start with a Drive request carrying that token: a refresh comes first.
C10_AuthTokenRefreshedOnceExpired ==
    \A p \in Procs :
        ( /\ ops[p].kind \in {"save", "load"} /\ Len(ops[p].log) > 0
          /\ ops[p].log[1].req \in DocumentApi
          /\ ops[p].log[1].access_token = "auth"
          /\ googleTokens.access_token = "auth" /\ googleTokens.refresh_token # "" )
        => ~ops[p].log[1].stale

\* a saveData or loadData starts on Drive in this step, in slot p
StartsRemote(p) ==
    /\ ops[p].pc = "idle"
    /\ ops'[p].kind \in {"save", "load"}
    /\ ops'[p].storageType = "google-drive"

\* the number of refresh requests a call has sent
RefreshCount(o) == Cardinality({i \in 1..Len(o.log) : o.log[i].req = "refresh"})

\* C11: a saveData or loadData that starts on Drive with a token set whose
\* expiry_date is in the past and that holds a refresh token sends a refresh
\* request first; when the provider accepts it, the call sends no second one
\* and its Drive requests all follow the refresh.
C11_OneRefreshFirst ==
    [][ \A p \in Procs :
          /\ ( StartsRemote(p) /\ Expired(googleTokens) /\ CanRefresh(googleTokens) )
             => Requests(ops'[p]) = <<"refresh">>
          /\ ( /\ ops'[p].kind \in {"save", "load"} /\ Len(ops'[p].log) > 0
               /\ ops'[p].log[1].req = "refresh" /\ ops'[p].log[1].outcome = "ok" )
             => RefreshCount(ops'[p]) = 1 ]_vars

\* C11 witness: a load that refreshed, searched and fetched
C11_Witness ==
    \E p \in Procs :
        /\ Done(p, "load") /\ ops[p].result = "ok" /\ ops[p].error = "none"
        /\ Requests(ops[p]) = <<"refresh", "search", "get">>

\* the token endpoint accepts the refresh of slot p in this step
RefreshSucceeds(p) ==
    /\ ops[p].pc = "await" /\ ops[p].awaiting = "refresh"
    /\ googleTokens'.access_token = "refreshed"
    /\ ops'[p].log[Len(ops[p].log)].outcome = "ok"

\* C12: every accepted refresh leaves a token set with a refresh token, in
\* memory and under the google_drive_tokens key alike: the previous one when
\* the response has none, the response's one ("R1") otherwise.
C12_RefreshTokenKept ==
    [][ \A p \in Procs : RefreshSucceeds(p) =>
          /\ googleTokens'.refresh_token # ""
          /\ googleTokens'.refresh_token \in {googleTokens.refresh_token, "R1"}
          /\ localStorage'.google_drive_tokens = StringifyTokens(googleTokens')
          /\ ParseTokens(localStorage'.google_drive_tokens).refresh_token # "" ]_vars

\* C12 witness: a refreshed token set that carries the stored refresh token
C12_Witness ==
    /\ googleTokens.access_token = "refreshed" /\ googleTokens.refresh_token = "R0"
    /\ localStorage.google_drive_tokens = StringifyTokens(googleTokens)

\* the errors refreshTokens raises: no refresh token to send, or the token
\* endpoint refusing or not answering
RefreshErrors == {"cannot-refresh", "refresh-failed"}

\* C13: a saveData or loadData whose token refresh fails ends by throwing to
\* its caller and leaves the financial_data key as it was: no local fallback
\* write by saveData, no document returned by loadData.
C13_RefreshFailureAborts ==
    [][ \A p \in Procs :
          ( /\ ops[p].pc # "done" /\ ops'[p].pc = "done"
            /\ ops'[p].kind \in {"save", "load"}
            /\ ops'[p].error \in RefreshErrors )
          => /\ ops'[p].result = "throw"
             /\ localStorage'.financial_data = localStorage.financial_data ]_vars

\* the token endpoint accepts the code exchange of slot p in this step
AuthSucceeds(p) ==
    /\ ops[p].pc = "await" /\ ops[p].awaiting = "token"
    /\ ops'[p].pc = "done" /\ ops'[p].result = "ok"

\* initialize returns in this step (no other step sets these kinds)
InitializeStep ==
    /\ lastReturned'.kind \in {"first-initialize", "initialize"}
    /\ UNCHANGED <<ops, now>>

\* C14: a successful handleAuthCallback leaves the token set in memory and
\* under the google_drive_tokens key; the key is never emptied afterwards; and
\* an initialize with type google-drive and credentials, the first call of a
\* newly started process included, takes the token set from the key and makes
\* Drive the backend, with no request sent.
C14_TokensSurviveRestart ==
    [][ /\ \A p \in Procs : AuthSucceeds(p) =>
              /\ googleTokens' # NullTokens
              /\ localStorage'.google_drive_tokens = StringifyTokens(googleTokens')
        /\ localStorage.google_drive_tokens # NoItem
              => localStorage'.google_drive_tokens # NoItem
        /\ ( /\ InitializeStep
             /\ config'.type = "google-drive" /\ config'.credentials # Null
             /\ localStorage.google_drive_tokens # NoItem )
           => /\ googleTokens' = ParseTokens(localStorage.google_drive_tokens)
              /\ GetStorageType(googleTokens', config') = "google-drive" ]_vars

\* C14 witness: the first initialize of a restarted process has restored a
\* token set that an earlier handleAuthCallback stored
C14_Witness ==
    /\ lastReturned.kind = "first-initialize"
    /\ googleTokens.access_token = "auth"
    /\ GetStorageType(googleTokens, config) = "google-drive"

\* C15: getAuthUrl and handleAuthCallback called while no credentials are held
\* throw 'Google credentials not initialized' at once: no request is sent, and
\* the token set, the local store and the configuration stay as they were.
C15_NotConfiguredFailsFast ==
    [][ \A p \in Procs :
          ( /\ ops[p].pc = "idle" /\ ops'[p].kind \in {"authurl", "auth"}
            /\ googleCredentials = Null )
          => /\ ops'[p].pc = "done" /\ ops'[p].result = "throw"
             /\ ops'[p].error = "not-initialized"
             /\ ops'[p].log = <<>>
             /\ UNCHANGED <<googleTokens, localStorage, config, googleCredentials,
                            driveFiles>> ]_vars

\* C15 witness: handleAuthCallback has thrown on a service whose initialize
\* named google-drive but supplied no credentials
C15_Witness ==
    \E p \in Procs :
        /\ Done(p, "auth") /\ ops[p].error = "not-initialized"
        /\ config.type = "google-drive" /\ googleCredentials = Null

\* what a newly constructed service holds after initialize(cfg) on local store ls
FreshCredentials(cfg) ==
    IF cfg.type = "google-drive" /\ cfg.credentials # Null THEN cfg.credentials ELSE Null

FreshTokens(cfg, ls) ==
    IF cfg.type = "google-drive" /\ cfg.credentials # Null
       /\ ls.google_drive_tokens # NoItem
    THEN ParseTokens(ls.google_drive_tokens) ELSE NullTokens

\* C16: once initialize(c) has returned, and before any other call, the
\* service holds what a newly constructed service would hold after
\* initialize(c) on the same local store: configuration c, and no credentials
\* and no token set other than those c and the store provide.
C16_InitializeReplaces ==
    ( lastReturned.kind \in {"first-initialize", "initialize"} /\ Quiescent )
    => /\ googleCredentials = FreshCredentials(config)
       /\ googleTokens = FreshTokens(config, localStorage)

\* the states of the service's life cycle, read off its fields
ServiceState(cfg, tokens) ==
    IF cfg.type = Null THEN "Unconfigured"
    ELSE IF cfg.type = "local" THEN "LocalOnly"
    ELSE IF tokens = NullTokens THEN "RemotePendingAuth"
    ELSE "RemoteAuthorized"

\* C17: initialize with type local gives LocalOnly; initialize with type
\* google-drive while no token set is stored gives RemotePendingAuth, with
\* the local backend active; a successful handleAuthCallback takes
\* RemotePendingAuth to RemoteAuthorized; and no step other than initialize or
\* a new process start (so no saveData, loadData or refresh, accepted or
\* refused) takes the token set away or leaves RemoteAuthorized.
C17_StateMachine ==
    [][ /\ ( InitializeStep /\ config'.type = "local" )
           => /\ ServiceState(config', googleTokens') = "LocalOnly"
              /\ GetStorageType(googleTokens', config') = "local"
        /\ ( InitializeStep /\ config'.type = "google-drive"
             /\ localStorage.google_drive_tokens = NoItem )
           => /\ ServiceState(config', googleTokens') = "RemotePendingAuth"
              /\ GetStorageType(googleTokens', config') = "local"
        /\ \A p \in Procs :
             ( AuthSucceeds(p) /\ ServiceState(config, googleTokens) = "RemotePendingAuth" )
             => ServiceState(config', googleTokens') = "RemoteAuthorized"
        /\ ( ~InitializeStep /\ lastReturned'.kind # "start" )
           => /\ googleTokens # NullTokens => googleTokens' # NullTokens
              /\ ServiceState(config, googleTokens) = "RemoteAuthorized"
                 => ServiceState(config', googleTokens') = "RemoteAuthorized" ]_vars

\* C17 witness: the service is still RemoteAuthorized at the end of a call
\* whose token refresh was refused
C17_Witness ==
    \E p \in Procs :
        /\ ops[p].pc = "done" /\ ops[p].kind \in {"save", "load"}
        /\ ops[p].error = "refresh-failed"
        /\ ServiceState(config, googleTokens) = "RemoteAuthorized"

\* Drive accepts the PATCH of slot p in this step
PatchSucceeds(p) ==
    /\ ops[p].pc = "await" /\ ops[p].awaiting = "patch"
    /\ ops'[p].pc = "done" /\ ops'[p].result = "ok"

\* Drive accepts the create request of slot p in this step
CreateSucceeds(p) ==
    /\ ops[p].pc = "await" /\ ops[p].awaiting = "create"
    /\ Len(driveFiles') = Len(driveFiles) + 1

\* C18: with saveData calls overlapping on Drive, the file a PATCH names
\* holds that call's payload at the moment Drive accepts the PATCH, and no
\* existing file's content changes in any other step, so the content at the
\* end is the payload of the PATCH accepted last, in whichever order the calls
\* started; and a saveData all of whose requests succeed ends without
\* throwing, whatever the other call does.
C18_LastPatchWins ==
    [][ /\ \A p \in Procs : PatchSucceeds(p) =>
              /\ driveFiles'[ops[p].fileId] = Stringify(ops[p].data)
              /\ \A f \in 1..Len(driveFiles) :
                     f # ops[p].fileId => driveFiles'[f] = driveFiles[f]
        /\ (\A p \in Procs : ~PatchSucceeds(p))
              => \A f \in 1..Len(driveFiles) : driveFiles'[f] = driveFiles[f]
        /\ \A p \in Procs :
              ( /\ ops'[p].pc = "done" /\ ops'[p].kind = "save"
                /\ ops'[p].storageType = "google-drive" /\ RemoteWorked(ops'[p]) )
              => ops'[p].result = "ok" ]_vars

\* C18 witness: two saveData calls with different payloads have both found
\* the same existing file and had their PATCH accepted; the file holds the
\* payload of one of them
C18_Witness ==
    \E p, q \in Procs :
        /\ p # q /\ Done(p, "save") /\ Done(q, "save")
        /\ ops[p].result = "ok" /\ ops[q].result = "ok"
        /\ Requests(ops[p]) = <<"search", "patch">>
        /\ Requests(ops[q]) = <<"search", "patch">>
        /\ ops[p].fileId = ops[q].fileId
        /\ ops[p].data # ops[q].data
        /\ driveFiles[ops[q].fileId] = Stringify(ops[q].data)

\* the positions in a call's log of create requests that Drive accepted
Created(o) == {i \in 1..Len(o.log) : o.log[i].req = "create" /\ o.log[i].outcome = "ok"}

\* C19: each call resolves its file handle on its own: a call that created a
\* file did so because its own search found none, and works on the id its own
\* create returned; two calls that both created a file hold different ids and
\* Drive holds at least two files. (The witness is the interleaving in which
\* both searches come back empty.)
C19_IndependentHandles ==
    /\ \A p \in Procs : \A i \in Created(ops[p]) :
          /\ i = 2 /\ ops[p].log[1].req = "search"
          /\ ops[p].log[1].outcome = "ok" /\ ops[p].log[1].answer = 0
          /\ ops[p].fileId = ops[p].log[i].answer
    /\ \A p, q \in Procs :
          ( p # q /\ Created(ops[p]) # {} /\ Created(ops[q]) # {} )
          => /\ ops[p].fileId # ops[q].fileId
             /\ Len(driveFiles) >= 2

\* C19 witness: a saveData and another saveData or loadData, started while
\* Drive had no file, have each created one: two files, two ids
C19_Witness ==
    \E p, q \in Procs :
        /\ p # q /\ ops[p].kind = "save" /\ ops[q].kind \in {"save", "load"}
        /\ Created(ops[p]) # {} /\ Created(ops[q]) # {}
        /\ {ops[p].fileId, ops[q].fileId} = {1, 2}
        /\ Len(driveFiles) = 2
        /\ ops[p].pc = "done" /\ ops[q].pc = "done"

\* C20: a loadData that ends with the financial_data key absent returns the
\* empty document without throwing, on the local backend and, on Drive, when
\* no file existed before the call (none exists, or the call created it).
C20_EmptyStateLoad ==
    \A p \in Procs :
        ( /\ Done(p, "load")
          /\ localStorage.financial_data = NoItem
          /\ \/ ops[p].storageType = "local"
             \/ Len(driveFiles) = 0
             \/ Created(ops[p]) # {} )
        => (ops[p].result = "ok" /\ ops[p].ret = EmptyDocument)

\* C20 witness: a loadData on Drive found no file, created it, fetched its
\* empty content, and returned the empty document
C20_Witness ==
    \E p \in Procs :
        /\ Done(p, "load") /\ ops[p].storageType = "google-drive"
        /\ localStorage.financial_data = NoItem
        /\ Requests(ops[p]) = <<"search", "create", "get">>
        /\ \A i \in 1..3 : ops[p].log[i].outcome = "ok"
        /\ ops[p].result = "ok" /\ ops[p].ret = EmptyDocument

\* C21: a loadData on the local backend settles at once: with the
\* financial_data key absent it returns the empty document, with parsable
\* text it returns the parsed document, with unparsable text it throws the
\* parse error; in each case localStorage stays as it was.
C21_LocalLoad ==
    [][ \A p \in Procs :
          ( /\ ops[p].pc = "idle" /\ ops'[p].kind = "load"
            /\ ops'[p].storageType = "local" )
          => LET stored == localStorage.financial_data
                 o == ops'[p]
             IN /\ o.pc = "done" /\ o.log = <<>>
                /\ stored = NoItem => (o.result = "ok" /\ o.ret = EmptyDocument)
                /\ (stored # NoItem /\ Parsable(stored))
                      => (o.result = "ok" /\ o.ret = Parse(stored))
                /\ (stored # NoItem /\ ~Parsable(stored))
                      => (o.result = "throw" /\ o.error = "corrupt-local")
                /\ localStorage' = localStorage ]_vars

\* C21 witness: a local loadData has thrown on unparsable stored text
C21_Witness ==
    \E p \in Procs :
        /\ Done(p, "load") /\ ops[p].storageType = "local"
        /\ ops[p].result = "throw" /\ ops[p].error = "corrupt-local"
        /\ localStorage.financial_data = CorruptText

\* C22: within one saveData, loadData or handleAuthCallback no kind of
\* request (token, refresh, search, create, get, patch) is sent twice; in
\* particular a request that failed is the last of its kind in the call, and
\* no request follows the last one once the call has ended.
C22_NoRetry ==
    \A p \in Procs :
        /\ \A i, j \in 1..Len(ops[p].log) :
              i # j => ops[p].log[i].req # ops[p].log[j].req
        /\ \A i \in 1..Len(ops[p].log) :
              ops[p].log[i].outcome = "sent" => (i = Len(ops[p].log) /\ ops[p].pc = "await")

\* C22 witness: a saveData ended after a search and a refused PATCH, with
\* nothing sent after the refusal
C22_Witness ==
    \E p \in Procs :
        /\ Done(p, "save") /\ Requests(ops[p]) = <<"search", "patch">>
        /\ ops[p].log[2].outcome = "fail" /\ ops[p].result = "throw"

\* C23: once handleCallback's code exchange has succeeded, whichever of the
\* two mount effects ran first, the backend is Drive, and the saveData that
\* follows works on Drive.
C23_CallbackActivatesDrive ==
    /\ Authorized => GetStorageType(googleTokens, config) = "google-drive"
    /\ ops[Callback].kind = "save" => ops[Callback].storageType = "google-drive"

\* C24: after every step, a token set held in memory is the one serialized
\* under the google_drive_tokens key; and apart from initialize, an accepted
\* code exchange, an accepted refresh and a new process start, no step
\* changes the token set in memory or the text under the key.
C24_TokenCopiesEqual ==
    [][ /\ googleTokens' # NullTokens
           => localStorage'.google_drive_tokens = StringifyTokens(googleTokens')
        /\ ( /\ ~InitializeStep /\ lastReturned'.kind # "start"
             /\ \A p \in Procs : ~AuthSucceeds(p) /\ ~RefreshSucceeds(p) )
           => /\ googleTokens' = googleTokens
              /\ localStorage'.google_drive_tokens = localStorage.google_drive_tokens
      ]_vars

\* C24 witness: a token set restored by initialize, then replaced by an
\* accepted refresh, is held in memory and under the key alike
C24_Witness ==
    /\ googleTokens.access_token = "refreshed" /\ googleTokens.refresh_token = "R1"
    /\ localStorage.google_drive_tokens = StringifyTokens(googleTokens)
    /\ Quiescent

\* C25: a handleAuthCallback whose code exchange the token endpoint refuses
\* throws, and the token set in memory, the text under google_drive_tokens,
\* the configuration and hence the backend are what they were before.
C25_FailedExchangeChangesNothing ==
    [][ \A p \in Procs :
          ( /\ ops[p].pc = "await" /\ ops[p].awaiting = "token"
            /\ ops'[p].log[Len(ops[p].log)].outcome = "fail" )
          => /\ ops'[p].pc = "done" /\ ops'[p].result = "throw"
             /\ ops'[p].error = "token-failed"
             /\ UNCHANGED <<googleTokens, localStorage, config, googleCredentials>>
             /\ GetStorageType(googleTokens', config')
                  = GetStorageType(googleTokens, config) ]_vars

\* C25 witness: a refused exchange on a service that already held a token set
C25_Witness ==
    \E p \in Procs :
        /\ Done(p, "auth") /\ ops[p].error = "token-failed"
        /\ googleTokens # NullTokens
        /\ GetStorageType(googleTokens, config) = "google-drive"

\* C26: no step of a loadData, on either backend and whatever fails, changes
\* the text under financial_data or the content of a file Drive already
\* holds.
C26_LoadWritesNoDocument ==
    [][ \A p \in Procs :
          ( ops'[p].kind = "load" /\ ops'[p] # ops[p] )
          => /\ localStorage'.financial_data = localStorage.financial_data
             /\ Len(driveFiles') >= Len(driveFiles)
             /\ \A f \in 1..Len(driveFiles) : driveFiles'[f] = driveFiles[f] ]_vars

\* C26 witness: a loadData on Drive whose request failed has ended with the
\* local copy and the Drive file still holding their different documents
C26_Witness ==
    \E p \in Procs :
        /\ Done(p, "load") /\ ops[p].storageType = "google-drive"
        /\ ops[p].error = "api-error"
        /\ localStorage.financial_data = Stringify(<<"tx2">>)
        /\ driveFiles = << Stringify(<<"tx1">>) >>

\* a saveData ends in this step on the local backend or by throwing on Drive
SaveEndsLocally(p) ==
    /\ ops[p].pc # "done" /\ ops'[p].pc = "done" /\ ops'[p].kind = "save"
    /\ (ops'[p].storageType = "local" \/ ops'[p].result = "throw")

\* C27: the step in which Drive accepts a saveData's PATCH leaves the text
\* under financial_data as it was; a loadData whose content GET is answered
\* with a document returns that document whatever financial_data holds; the
\* text under financial_data changes only when a saveData ends on the local
\* backend or by throwing on Drive, and then becomes that call's payload; and
\* the content of a Drive file changes only when Drive accepts a PATCH, and
\* then becomes that saveData's payload.
C27_LocalCopyIsNoReplica ==
    [][ /\ \A p \in Procs : PatchSucceeds(p) => localStorage' = localStorage
        /\ \A p \in Procs :
              ( /\ ops[p].pc = "await" /\ ops[p].awaiting = "get"
                /\ ops'[p].pc = "done" /\ ops'[p].error = "none" )
              => (ops'[p].result = "ok" /\ ops'[p].ret = Parse(driveFiles[ops[p].fileId]))
        /\ localStorage'.financial_data # localStorage.financial_data
              => \E p \in Procs :
                    /\ SaveEndsLocally(p)
                    /\ localStorage'.financial_data = Stringify(ops'[p].data)
        /\ \A f \in 1..Len(driveFiles) :
              driveFiles'[f] # driveFiles[f]
              => \E p \in Procs :
                    /\ PatchSucceeds(p) /\ ops[p].fileId = f
                    /\ driveFiles'[f] = Stringify(ops[p].data) ]_vars

\* C27 witness: after a saveData that Drive accepted, financial_data still
\* holds an older document, and a loadData has returned the Drive content
C27_Witness ==
    \E p \in Procs :
        /\ lastReturned.kind = "save" /\ lastReturned.result = "ok"
        /\ lastReturned.storageType = "google-drive"
        /\ lastReturned.data = <<"tx1">>
        /\ localStorage.financial_data = Stringify(<<"tx2">>)
        /\ Done(p, "load") /\ ops[p].error = "none" /\ ops[p].ret = <<"tx1">>

\* the positions in a call's log of its search requests answered "no file"
EmptySearches(o) ==
    {i \in 1..Len(o.log) : /\ o.log[i].req = "search" /\ o.log[i].outcome = "ok"
                           /\ o.log[i].answer = 0}

\* C28: with the calls made one after the other, a create request is sent
\* only after the same call's search was answered with no file, and Drive
\* never holds more than one file named FILE_NAME.
C28_AtMostOneFile ==
    /\ \A p \in Procs : \A i \in 1..Len(ops[p].log) :
          ops[p].log[i].req = "create" => \E j \in EmptySearches(ops[p]) : j < i
    /\ Len(driveFiles) <= 1

\* C28 witness: an earlier Drive call has returned, and the present call's
\* search found no file, whereupon it created the one file there is
C28_Witness ==
    \E p \in Procs :
        /\ lastReturned.kind \in {"save", "load"}
        /\ lastReturned.storageType = "google-drive"
        /\ Created(ops[p]) # {} /\ ops[p].fileId = 1 /\ Len(driveFiles) = 1

\* C29: after a handleDeleteTransaction whose saveData threw, the in-app list
\* still holds the transaction (it is one longer than the list that was to be
\* saved), and a loadData made next returns that same list.
C29_FailedDeleteKeepsListAndStore ==
    ( lastReturned.kind = "save" /\ lastReturned.result = "throw" )
    => /\ Len(transactions) = Len(lastReturned.data) + 1
       /\ \A p \in Procs :
             ( Done(p, "load") /\ ops[p].result = "ok" ) => ops[p].ret = transactions

\* C30: with no initGitHub in flight, isAuthenticated() is true only if the
\* last GitHub event was an accepted user lookup; and after an initGitHub
\* whose lookup failed, the token of that login is not under github_token.
C30_AuthenticatedOnlyAfterLookup ==
    lookups.pc = "idle"
    => /\ IsAuthenticated => lookups.last = "ok"
       /\ lookups.last = "fail" => github_token # lookups.token

====
